---- MODULE Spec2Model ----
(***************************************************************************)
(* Tic-tac-toe engine (app/models/tictactoe.py) and move selector          *)
(* (app/utils/ai.py).  The game object is the state; every method that     *)
(* mutates it is an action, every query is an operator.                    *)
(***************************************************************************)
EXTENDS Integers, Sequences, FiniteSets, TLC

VARIABLES
    board,           \* TicTacToeGame.board: board[row][col], rows/cols 0..2
    current_player,  \* TicTacToeGame.current_player
    game_status,     \* TicTacToeGame.game_status
    difficulty,      \* TicTacToeGame.difficulty
    winner,          \* TicTacToeGame.winner
    winning_line,    \* TicTacToeGame.winning_line
    last_result,     \* history: what the last make_move call returned (None before any call)
    accepted,        \* history: marks of the accepted moves, oldest first
    hard_only,       \* history: marks whose accepted moves were all chosen by the hard selector
    query,           \* the last query call made on the game, with its arguments and result
    twin,            \* a second game object made from the game (copy, from_dict), NoTwin before
    session,         \* session['game']: the stored snapshot, NoSession when absent
    response,        \* the last answer of a route or of a restore call
    requests,        \* RateLimiter.requests[key]: the recorded timestamps, oldest first
    now,             \* time.time() as read by the last is_allowed call
    allowed,         \* what the last is_allowed call returned (None before any call)
    granted          \* history: the timestamps of the calls that returned True

\* what the engine's own methods never touch
\* the rate limiter's state and history
limiter == <<requests, now, allowed, granted>>

aux == <<query, twin, session, response, limiter>>

vars == <<board, current_player, game_status, difficulty, winner,
          winning_line, last_result, accepted, hard_only, query, twin, session, response, limiter>>

----------------------------------------------------------------------------
\* Program constants

EMPTY == ""
PLAYER_X == "X"
PLAYER_O == "O"
Marks == {PLAYER_X, PLAYER_O}
None == "None"          \* Python None for winner
NoLine == <<>>          \* Python None for winning_line
NoMove == <<>>          \* Python None for a move
NoQuery == [op |-> "none"]
NoTwin == [made_by |-> "none"]
NoSession == [present |-> FALSE]
NoResponse == [kind |-> "none"]
Idx == 0..2
Difficulties == {"easy", "medium", "hard"}
WinScore == 10
LoseScore == -10
DrawScore == 0
AlphaInit == -1000
BetaInit == 1000

\* Bound of the inputs tried by the callers: rows and columns -1..MaxCoord
MaxCoord == 3
Coords == -1..MaxCoord
\* Bound of the random draws
MaxPick == 8
Picks == 0..MaxPick

----------------------------------------------------------------------------
\* TicTacToeGame queries

EmptyBoard == [i \in Idx |-> [j \in Idx |-> EMPTY]]

\* mutant: the last column ends in the wrong cell
WinLinesWrongColumn ==
    << <<<<0,0>>, <<0,1>>, <<0,2>>>>,
       <<<<1,0>>, <<1,1>>, <<1,2>>>>,
       <<<<2,0>>, <<2,1>>, <<2,2>>>>,
       <<<<0,0>>, <<1,0>>, <<2,0>>>>,
       <<<<0,1>>, <<1,1>>, <<2,1>>>>,
       <<<<0,2>>, <<1,2>>, <<2,1>>>>,
       <<<<0,0>>, <<1,1>>, <<2,2>>>>,
       <<<<0,2>>, <<1,1>>, <<2,0>>>> >>

\* mutant: the columns scanned before the rows
WinLinesColumnsFirst ==
    << <<<<0,0>>, <<1,0>>, <<2,0>>>>,
       <<<<0,1>>, <<1,1>>, <<2,1>>>>,
       <<<<0,2>>, <<1,2>>, <<2,2>>>>,
       <<<<0,0>>, <<0,1>>, <<0,2>>>>,
       <<<<1,0>>, <<1,1>>, <<1,2>>>>,
       <<<<2,0>>, <<2,1>>, <<2,2>>>>,
       <<<<0,0>>, <<1,1>>, <<2,2>>>>,
       <<<<0,2>>, <<1,1>>, <<2,0>>>> >>

\* The eight lines in the order check_winner scans them
WinLines ==
    << <<<<0,0>>, <<0,1>>, <<0,2>>>>,
       <<<<1,0>>, <<1,1>>, <<1,2>>>>,
       <<<<2,0>>, <<2,1>>, <<2,2>>>>,
       <<<<0,0>>, <<1,0>>, <<2,0>>>>,
       <<<<0,1>>, <<1,1>>, <<2,1>>>>,
       <<<<0,2>>, <<1,2>>, <<2,2>>>>,
       <<<<0,0>>, <<1,1>>, <<2,2>>>>,
       <<<<0,2>>, <<1,1>>, <<2,0>>>> >>

At(b, p) == b[p[1]][p[2]]

\* board[a] == board[b] == board[c] != EMPTY
LineComplete(b, l) ==
    /\ At(b, l[1]) = At(b, l[2])
    /\ At(b, l[2]) = At(b, l[3])
    /\ At(b, l[3]) # EMPTY

RECURSIVE ScanLines(_, _)
\* mutant: the anti-diagonal is never looked at
ScanLinesNoAntiDiagonal(b, k) ==
    IF k > Len(WinLines) - 1 THEN 0
    ELSE IF LineComplete(b, WinLines[k]) THEN k
    ELSE ScanLines(b, k + 1)

\* index of the first complete line at or after k in scan order, 0 if none
ScanLines(b, k) ==
    IF k > Len(WinLines) THEN 0
    ELSE IF LineComplete(b, WinLines[k]) THEN k
    ELSE ScanLines(b, k + 1)

\* check_winner: the returned mark, and the winning_line it leaves behind
CheckWinnerFrom(b, line) ==
    LET k == ScanLines(b, 1) IN
    IF k = 0 THEN [winner |-> None, winning_line |-> line]
    ELSE [winner |-> At(b, WinLines[k][1]), winning_line |-> WinLines[k]]

check_winner(b) == CheckWinnerFrom(b, NoLine).winner

\* mutant: True as soon as one row has no empty cell
is_board_full_one_row(b) == \E i \in Idx : \A j \in Idx : b[i][j] # EMPTY

is_board_full(b) == \A i \in Idx : \A j \in Idx : b[i][j] # EMPTY

RECURSIVE CellsFrom(_, _)
\* mutant: the cells are enumerated column by column
CellsFromColumnMajor(b, n) ==
    IF n > 8 THEN <<>>
    ELSE LET i == n % 3
             j == n \div 3
         IN IF b[i][j] = EMPTY THEN <<<<i, j>>>> \o CellsFrom(b, n + 1)
            ELSE CellsFrom(b, n + 1)

\* row-major enumeration of the empty cells from cell number n (0..8) on
CellsFrom(b, n) ==
    IF n > 8 THEN <<>>
    ELSE LET i == n \div 3
             j == n % 3
         IN IF b[i][j] = EMPTY THEN <<<<i, j>>>> \o CellsFrom(b, n + 1)
            ELSE CellsFrom(b, n + 1)

get_empty_cells(b) == CellsFrom(b, 0)

\* mutant: an occupied cell is not refused
is_valid_move_occupied(b, status, row, col) ==
    IF ~(0 <= row /\ row <= 2 /\ 0 <= col /\ col <= 2) THEN FALSE
    ELSE IF status # "playing" THEN FALSE
    ELSE TRUE

\* mutant: only a game the human won is refused, a lost one goes on
is_valid_move_lost_goes_on(b, status, row, col) ==
    IF ~(0 <= row /\ row <= 2 /\ 0 <= col /\ col <= 2) THEN FALSE
    ELSE IF b[row][col] # EMPTY THEN FALSE
    ELSE IF status \in {"won", "draw"} THEN FALSE
    ELSE TRUE

\* mutant: a finished game is not refused
is_valid_move_finished(b, status, row, col) ==
    IF ~(0 <= row /\ row <= 2 /\ 0 <= col /\ col <= 2) THEN FALSE
    ELSE IF b[row][col] # EMPTY THEN FALSE
    ELSE TRUE

\* mutant: no lower bound on row and col, so a negative index counts from the end
is_valid_move_negative(b, status, row, col) ==
    IF ~(row <= 2 /\ col <= 2) THEN FALSE
    ELSE IF b[row % 3][col % 3] # EMPTY THEN FALSE
    ELSE IF status # "playing" THEN FALSE
    ELSE TRUE

is_valid_move(b, status, row, col) ==
    IF ~(0 <= row /\ row <= 2 /\ 0 <= col /\ col <= 2) THEN FALSE
    ELSE IF b[row][col] # EMPTY THEN FALSE
    ELSE IF status # "playing" THEN FALSE
    ELSE TRUE

Other(player) == IF player = PLAYER_X THEN PLAYER_O ELSE PLAYER_X

\* mutant: the three rows are one list, so the write shows in every row
PlaceAliasedRows(b, cell, player) == [i \in Idx |-> [b[i] EXCEPT ![cell[2]] = player]]

\* self.board[row][col] = player
Place(b, cell, player) == [b EXCEPT ![cell[1]][cell[2]] = player]

----------------------------------------------------------------------------
\* TicTacToeAI._minimax, for a selector with fields ai_player = ai and
\* human_player = human

Max(a, b) == IF a > b THEN a ELSE b
Min(a, b) == IF a < b THEN a ELSE b

RECURSIVE Minimax(_, _, _, _, _, _)
RECURSIVE MaxLoop(_, _, _, _, _, _, _, _, _)
RECURSIVE MinLoop(_, _, _, _, _, _, _, _, _)

\* mutant: the maximizing loop is cut as soon as a move does not lose
MaxStepCutsAtDraw(b, cells, i, alpha, beta, max_eval, best_move, ai, human, eval_score) ==
    LET new_max == IF eval_score > max_eval THEN eval_score ELSE max_eval
        new_best == IF eval_score > max_eval THEN cells[i] ELSE best_move
        new_alpha == Max(alpha, eval_score)
    IN IF beta <= new_alpha \/ new_alpha >= DrawScore
       THEN [score |-> new_max, move |-> new_best]
       ELSE MaxLoop(b, cells, i + 1, new_alpha, beta, new_max, new_best, ai, human)

\* one iteration of the maximizing loop over empty_cells[i..]
MaxStep(b, cells, i, alpha, beta, max_eval, best_move, ai, human, eval_score) ==
    LET new_max == IF eval_score > max_eval THEN eval_score ELSE max_eval
        new_best == IF eval_score > max_eval THEN cells[i] ELSE best_move
        new_alpha == Max(alpha, eval_score)
    IN IF beta <= new_alpha THEN [score |-> new_max, move |-> new_best]
       ELSE MaxLoop(b, cells, i + 1, new_alpha, beta, new_max, new_best, ai, human)

MaxLoop(b, cells, i, alpha, beta, max_eval, best_move, ai, human) ==
    IF i > Len(cells) THEN [score |-> max_eval, move |-> best_move]
    ELSE MaxStep(b, cells, i, alpha, beta, max_eval, best_move, ai, human,
                 Minimax(Place(b, cells[i], ai), FALSE, alpha, beta, ai, human).score)

\* mutant: the minimizing loop compares as the maximizing loop does
MinStepCompareAsMax(b, cells, i, alpha, beta, min_eval, best_move, ai, human, eval_score) ==
    LET new_min == IF eval_score > min_eval THEN eval_score ELSE min_eval
        new_best == IF eval_score > min_eval THEN cells[i] ELSE best_move
        new_beta == Min(beta, eval_score)
    IN IF new_beta <= alpha THEN [score |-> new_min, move |-> new_best]
       ELSE MinLoop(b, cells, i + 1, alpha, new_beta, new_min, new_best, ai, human)

\* one iteration of the minimizing loop over empty_cells[i..]
MinStep(b, cells, i, alpha, beta, min_eval, best_move, ai, human, eval_score) ==
    LET new_min == IF eval_score < min_eval THEN eval_score ELSE min_eval
        new_best == IF eval_score < min_eval THEN cells[i] ELSE best_move
        new_beta == Min(beta, eval_score)
    IN IF new_beta <= alpha THEN [score |-> new_min, move |-> new_best]
       ELSE MinLoop(b, cells, i + 1, alpha, new_beta, new_min, new_best, ai, human)

MinLoop(b, cells, i, alpha, beta, min_eval, best_move, ai, human) ==
    IF i > Len(cells) THEN [score |-> min_eval, move |-> best_move]
    ELSE MinStep(b, cells, i, alpha, beta, min_eval, best_move, ai, human,
                 Minimax(Place(b, cells[i], human), TRUE, alpha, beta, ai, human).score)

Minimax(b, is_maximizing, alpha, beta, ai, human) ==
    LET w == check_winner(b) IN
    IF w = ai THEN [score |-> WinScore, move |-> NoMove]
    ELSE IF w = human THEN [score |-> LoseScore, move |-> NoMove]
    ELSE IF is_board_full(b) THEN [score |-> DrawScore, move |-> NoMove]
    ELSE IF is_maximizing
         THEN MaxLoop(b, get_empty_cells(b), 1, alpha, beta, AlphaInit, NoMove, ai, human)
         ELSE MinLoop(b, get_empty_cells(b), 1, alpha, beta, BetaInit, NoMove, ai, human)

\* mutant: the search is started on the minimizing layer
get_hard_move_minimizing(b, ai, human) == Minimax(b, FALSE, AlphaInit, BetaInit, ai, human).move

\* _get_hard_move: _, best_move = self._minimax(game, True)
get_hard_move(b, ai, human) == Minimax(b, TRUE, AlphaInit, BetaInit, ai, human).move

----------------------------------------------------------------------------
\* TicTacToeAI: the heuristic tiers and get_move

RECURSIVE FindFrom(_, _, _, _)
\* mutant: the loop goes on after a hit, so the last winning cell is returned
FindFromKeepsLast(b, cells, i, player) ==
    IF i > Len(cells) THEN NoMove
    ELSE IF FindFrom(b, cells, i + 1, player) # NoMove THEN FindFrom(b, cells, i + 1, player)
    ELSE IF check_winner(Place(b, cells[i], player)) = player THEN cells[i]
    ELSE NoMove

\* _find_winning_move, from the i-th empty cell on
FindFrom(b, cells, i, player) ==
    IF i > Len(cells) THEN NoMove
    ELSE IF check_winner(Place(b, cells[i], player)) = player THEN cells[i]
    ELSE FindFrom(b, cells, i + 1, player)

find_winning_move(b, player) == FindFrom(b, get_empty_cells(b), 1, player)

find_blocking_move(b, human) == find_winning_move(b, human)

\* random.choice(seq), the draw being pick
Choice(seq, pick) == seq[(pick % Len(seq)) + 1]

\* mutant: the easy tier takes its own win when it has one
get_easy_move_takes_win(b, empty_cells, human, defensive, pick) ==
    IF find_winning_move(b, Other(human)) # NoMove
    THEN find_winning_move(b, Other(human))
    ELSE IF defensive /\ find_blocking_move(b, human) # NoMove
    THEN find_blocking_move(b, human)
    ELSE Choice(empty_cells, pick)

\* random.random() < 0.2 is the draw defensive
get_easy_move(b, empty_cells, human, defensive, pick) ==
    IF defensive /\ find_blocking_move(b, human) # NoMove
    THEN find_blocking_move(b, human)
    ELSE Choice(empty_cells, pick)

Corners == << <<0, 0>>, <<0, 2>>, <<2, 0>>, <<2, 2>> >>

\* mutant: the center is taken without looking whether it is empty
get_medium_move_center_unchecked(b, empty_cells, ai, human, pick) ==
    LET winning_move == find_winning_move(b, ai)
        blocking_move == find_blocking_move(b, human)
    IN IF winning_move # NoMove THEN winning_move
       ELSE IF blocking_move # NoMove THEN blocking_move
       ELSE <<1, 1>>

\* mutant: a corner is taken before the center
get_medium_move_corner_first(b, empty_cells, ai, human, pick) ==
    LET winning_move == find_winning_move(b, ai)
        blocking_move == find_blocking_move(b, human)
        available_corners == SelectSeq(Corners, LAMBDA pos : At(b, pos) = EMPTY)
    IN IF winning_move # NoMove THEN winning_move
       ELSE IF blocking_move # NoMove THEN blocking_move
       ELSE IF available_corners # <<>> THEN Choice(available_corners, pick)
       ELSE IF At(b, <<1, 1>>) = EMPTY THEN <<1, 1>>
       ELSE Choice(empty_cells, pick)

\* mutant: the human's win is blocked before the own win is looked for
get_medium_move_block_first(b, empty_cells, ai, human, pick) ==
    LET winning_move == find_winning_move(b, ai)
        blocking_move == find_blocking_move(b, human)
        available_corners == SelectSeq(Corners, LAMBDA pos : At(b, pos) = EMPTY)
    IN IF blocking_move # NoMove THEN blocking_move
       ELSE IF winning_move # NoMove THEN winning_move
       ELSE IF At(b, <<1, 1>>) = EMPTY THEN <<1, 1>>
       ELSE IF available_corners # <<>> THEN Choice(available_corners, pick)
       ELSE Choice(empty_cells, pick)

get_medium_move(b, empty_cells, ai, human, pick) ==
    LET winning_move == find_winning_move(b, ai)
        blocking_move == find_blocking_move(b, human)
        available_corners == SelectSeq(Corners, LAMBDA pos : At(b, pos) = EMPTY)
    IN IF winning_move # NoMove THEN winning_move
       ELSE IF blocking_move # NoMove THEN blocking_move
       ELSE IF At(b, <<1, 1>>) = EMPTY THEN <<1, 1>>
       ELSE IF available_corners # <<>> THEN Choice(available_corners, pick)
       ELSE Choice(empty_cells, pick)

\* str.lower() on the difficulty names a caller may pass
Lower(d) ==
    CASE d = "EASY" -> "easy"
      [] d = "Medium" -> "medium"
      [] d = "HARD" -> "hard"
      [] d = "Hard" -> "hard"
      [] OTHER -> d

\* mutant: an unknown difficulty falls back to the medium tier
get_move_default_medium(b, d, ai, human, defensive, pick) ==
    LET empty_cells == get_empty_cells(b) IN
    IF empty_cells = <<>> THEN [error |-> "No valid moves available", move |-> NoMove]
    ELSE IF d = "easy"
         THEN [error |-> None, move |-> get_easy_move(b, empty_cells, human, defensive, pick)]
    ELSE IF d = "hard"
         THEN [error |-> None, move |-> get_hard_move(b, ai, human)]
    ELSE [error |-> None, move |-> get_medium_move(b, empty_cells, ai, human, pick)]

\* get_move of a selector with difficulty d (already lower-cased by __init__),
\* ai_player = ai, human_player = human, under the random draws defensive, pick;
\* error names the ValueError raised, None when a move is returned
get_move(b, d, ai, human, defensive, pick) ==
    LET empty_cells == get_empty_cells(b) IN
    IF empty_cells = <<>> THEN [error |-> "No valid moves available", move |-> NoMove]
    ELSE IF d = "easy"
         THEN [error |-> None, move |-> get_easy_move(b, empty_cells, human, defensive, pick)]
    ELSE IF d = "medium"
         THEN [error |-> None, move |-> get_medium_move(b, empty_cells, ai, human, pick)]
    ELSE IF d = "hard"
         THEN [error |-> None, move |-> get_hard_move(b, ai, human)]
    ELSE [error |-> "Invalid difficulty level", move |-> NoMove]

\* get_ai_move(game, difficulty): TicTacToeAI(difficulty).get_move(game)
get_ai_move(b, d, defensive, pick) ==
    get_move(b, Lower(d), PLAYER_O, PLAYER_X, defensive, pick)

----------------------------------------------------------------------------
\* TicTacToeGame.__init__

NewGame(d) ==
    /\ board = EmptyBoard
    /\ current_player = PLAYER_X
    /\ game_status = "playing"
    /\ difficulty = d
    /\ winner = None
    /\ winning_line = NoLine

\* RateLimiter(): no timestamp is recorded for the key, no call was made
LimiterInit ==
    /\ requests = <<>>
    /\ now = 0
    /\ allowed = None
    /\ granted = <<>>

\* nothing has been asked, copied, stored or answered yet
AuxInit ==
    /\ query = NoQuery
    /\ twin = NoTwin
    /\ session = NoSession
    /\ response = NoResponse
    /\ LimiterInit

Init ==
    /\ \E d \in Difficulties : NewGame(d)
    /\ last_result = None
    /\ accepted = <<>>
    /\ hard_only = Marks
    /\ AuxInit

\* mutant: the turn is not checked
MoveRejectedNoTurn(b, status, turn, row, col, player) ==
    IF ~is_valid_move(b, status, row, col) THEN TRUE
    ELSE FALSE

\* mutant: the turn test is inverted
MoveRejectedInverted(b, status, turn, row, col, player) ==
    IF ~is_valid_move(b, status, row, col) THEN TRUE
    ELSE IF player = turn THEN TRUE
    ELSE FALSE

\* the two early returns of make_move
MoveRejected(b, status, turn, row, col, player) ==
    IF ~is_valid_move(b, status, row, col) THEN TRUE
    ELSE IF player # turn THEN TRUE
    ELSE FALSE

\* mutant: nothing is returned when the move is out of turn
make_move_returns_nothing(b, status, turn, row, col, player) ==
    IF ~is_valid_move(b, status, row, col) THEN "False"
    ELSE IF player # turn THEN None
    ELSE "True"

\* what make_move returns: False at the early returns, True at the end
make_move_returns(b, status, turn, row, col, player) ==
    IF MoveRejected(b, status, turn, row, col, player) THEN "False" ELSE "True"

\* TicTacToeGame.make_move(row, col, player); by is "hard" when the cell was
\* chosen by the hard selector playing `player`, "caller" otherwise
MakeMoveBy(row, col, player, by) ==
    IF MoveRejected(board, game_status, current_player, row, col, player)
    THEN /\ last_result' = make_move_returns(board, game_status, current_player, row, col, player)
         /\ UNCHANGED <<board, current_player, game_status, difficulty, winner,
                        winning_line, accepted, hard_only>>
         /\ UNCHANGED aux
    ELSE LET b2 == Place(board, <<row, col>>, player)
             cw == CheckWinnerFrom(b2, winning_line)
         IN /\ board' = b2
            /\ winning_line' = cw.winning_line
            /\ IF cw.winner # None
               THEN /\ game_status' = (IF cw.winner = PLAYER_X THEN "won" ELSE "lost")
                    /\ winner' = cw.winner
                    /\ UNCHANGED current_player
               ELSE IF is_board_full(b2)
               THEN /\ game_status' = "draw"
                    /\ UNCHANGED <<winner, current_player>>
               ELSE /\ current_player' = (IF player = PLAYER_X THEN PLAYER_O ELSE PLAYER_X)
                    /\ UNCHANGED <<winner, game_status>>
            /\ last_result' = make_move_returns(board, game_status, current_player, row, col, player)
            /\ accepted' = Append(accepted, player)
            /\ hard_only' = IF by = "hard" THEN hard_only ELSE hard_only \ {player}
            /\ UNCHANGED difficulty
            /\ UNCHANGED aux

make_move(row, col, player) == MakeMoveBy(row, col, player, "caller")

\* Any caller, any arguments
Next == \E row \in Coords, col \in Coords, player \in Marks : make_move(row, col, player)

Spec == Init /\ [][Next]_vars

----------------------------------------------------------------------------
\* A game against the hard selector: the human plays X through make_move and
\* the reply is get_ai_move(game, game.difficulty) applied with make_move, as
\* the /move handler does (routes/game.py)

InitHard ==
    /\ NewGame("hard")
    /\ last_result = None
    /\ accepted = <<>>
    /\ hard_only = Marks
    /\ AuxInit

HumanMove(row, col) ==
    /\ current_player = PLAYER_X
    /\ game_status = "playing"
    /\ make_move(row, col, PLAYER_X)

\* the outcomes get_ai_move can have on board b: the hard tier draws nothing
AIOutcomes(b, d) ==
    IF Lower(d) = "hard" THEN {get_ai_move(b, d, FALSE, 0)}
    ELSE {get_ai_move(b, d, defensive, pick) : defensive \in BOOLEAN, pick \in Picks}

AIReply ==
    /\ current_player = PLAYER_O
    /\ game_status = "playing"
    /\ \E r \in AIOutcomes(board, difficulty) :
          /\ r.error = None
          /\ r.move # NoMove
          /\ MakeMoveBy(r.move[1], r.move[2], PLAYER_O,
                        IF Lower(difficulty) = "hard" THEN "hard" ELSE "caller")

NextHard == (\E row \in Idx, col \in Idx : HumanMove(row, col)) \/ AIReply

SpecHard == InitHard /\ [][NextHard]_vars

----------------------------------------------------------------------------
\* Self-play (test_ai_never_loses_when_going_first): either mark may open, and
\* each mark is played either by a caller choosing any legal cell or, for as
\* long as all its moves have been the selector's, by a hard selector whose
\* ai_player is that mark

InitSelfPlay ==
    /\ board = EmptyBoard
    /\ current_player \in Marks
    /\ game_status = "playing"
    /\ difficulty = "hard"
    /\ winner = None
    /\ winning_line = NoLine
    /\ last_result = None
    /\ accepted = <<>>
    /\ hard_only = Marks
    /\ AuxInit

CallerMove(row, col) ==
    /\ is_valid_move(board, game_status, row, col)
    /\ make_move(row, col, current_player)

SelectorMove ==
    /\ game_status = "playing"
    /\ current_player \in hard_only
    /\ \E r \in {get_move(board, "hard", current_player, Other(current_player), FALSE, 0)} :
          /\ r.error = None
          /\ r.move # NoMove
          /\ MakeMoveBy(r.move[1], r.move[2], current_player, "hard")

NextSelfPlay == (\E row \in Idx, col \in Idx : CallerMove(row, col)) \/ SelectorMove

SpecSelfPlay == InitSelfPlay /\ [][NextSelfPlay]_vars

----------------------------------------------------------------------------
\* The read-only methods, each run calling one of them once at any point of a
\* game of legal moves; the call and what it returned are kept in query

game == <<board, current_player, game_status, difficulty, winner, winning_line>>

QueryFrame == UNCHANGED <<board, current_player, game_status, difficulty, winner,
                          winning_line, last_result, accepted, hard_only,
                          twin, session, response, limiter>>

\* game.is_valid_move(row, col)
IsValidMoveCall(row, col) ==
    /\ query' = [op |-> "is_valid_move", row |-> row, col |-> col,
                 result |-> is_valid_move(board, game_status, row, col)]
    /\ QueryFrame

\* game.get_empty_cells()
GetEmptyCellsCall ==
    /\ query' = [op |-> "get_empty_cells", result |-> get_empty_cells(board)]
    /\ QueryFrame

\* ai._find_winning_move(game, player)
FindWinningMoveCall(player) ==
    /\ query' = [op |-> "find_winning_move", player |-> player,
                 result |-> find_winning_move(board, player)]
    /\ QueryFrame

\* ai._find_blocking_move(game), ai being a selector with human_player = X
FindBlockingMoveCall ==
    /\ query' = [op |-> "find_blocking_move", result |-> find_blocking_move(board, PLAYER_X)]
    /\ QueryFrame

InitQuery ==
    /\ NewGame("medium")
    /\ last_result = None
    /\ accepted = <<>>
    /\ hard_only = Marks
    /\ AuxInit

PlayedMove(row, col) ==
    /\ query = NoQuery
    /\ CallerMove(row, col)

NextQuery ==
    \/ \E row \in Idx, col \in Idx : PlayedMove(row, col)
    \/ /\ query = NoQuery
       /\ \/ \E row \in Coords, col \in Coords : IsValidMoveCall(row, col)
          \/ GetEmptyCellsCall
          \/ \E player \in Marks : FindWinningMoveCall(player)
          \/ FindBlockingMoveCall

SpecQuery == InitQuery /\ [][NextQuery]_vars

----------------------------------------------------------------------------
\* Snapshots and copies of a game of legal moves. twin is the second game
\* object: its fields, which of its lists are the very lists of the original
\* (shares_cells, shares_line), and how many writes were made through it.

MaxTwinWrites == 1
MaxMovesAfterTwin == 1

\* dict.get(key, default)
Get(data, key, default) == IF key \in DOMAIN data THEN data[key] ELSE default

\* TicTacToeGame.to_dict of a game with these fields
to_dict(b, turn, status, d, w, line) ==
    [board |-> b, current_player |-> turn, game_status |-> status,
     difficulty |-> d, winner |-> w, winning_line |-> line]

\* mutant: the winning line is not read back
from_dict_without_line(data) ==
    [board |-> Get(data, "board", EmptyBoard),
     current_player |-> Get(data, "current_player", PLAYER_X),
     game_status |-> Get(data, "game_status", "playing"),
     difficulty |-> Get(data, "difficulty", "medium"),
     winner |-> Get(data, "winner", None),
     winning_line |-> NoLine]

\* TicTacToeGame.from_dict: the fields of the game it builds
from_dict(data) ==
    [board |-> Get(data, "board", EmptyBoard),
     current_player |-> Get(data, "current_player", PLAYER_X),
     game_status |-> Get(data, "game_status", "playing"),
     difficulty |-> Get(data, "difficulty", "medium"),
     winner |-> Get(data, "winner", None),
     winning_line |-> Get(data, "winning_line", NoLine)]

\* the fields of the original game
Fields == to_dict(board, current_player, game_status, difficulty, winner, winning_line)

\* mutant: board[:] copies the outer list only, the rows stay shared
copy_shallow(g) ==
    [made_by |-> "copy", shares_cells |-> TRUE, shares_line |-> FALSE,
     board |-> g.board, current_player |-> g.current_player,
     game_status |-> g.game_status, difficulty |-> g.difficulty,
     winner |-> g.winner, winning_line |-> g.winning_line]

\* TicTacToeGame.copy: new row lists and a new winning_line list
copy(g) ==
    [made_by |-> "copy", shares_cells |-> FALSE, shares_line |-> FALSE,
     board |-> [i \in Idx |-> [j \in Idx |-> g.board[i][j]]],
     current_player |-> g.current_player,
     game_status |-> g.game_status, difficulty |-> g.difficulty,
     winner |-> g.winner,
     winning_line |-> IF g.winning_line # NoLine
                      THEN [k \in 1..Len(g.winning_line) |-> g.winning_line[k]]
                      ELSE NoLine]

TwinFrame == UNCHANGED <<last_result, accepted, hard_only, query, session, response, limiter>>

\* twin = game.copy()
CopyCall ==
    /\ twin = NoTwin
    /\ twin' = copy(Fields) @@ [writes |-> 0, made_at |-> Len(accepted)]
    /\ UNCHANGED game
    /\ TwinFrame

\* twin = TicTacToeGame.from_dict(game.to_dict()): the dict holds the board
\* list and the winning_line list of the game, and from_dict keeps them
RoundTripCall ==
    /\ twin = NoTwin
    /\ twin' = from_dict(Fields) @@
               [made_by |-> "from_dict", shares_cells |-> TRUE,
                shares_line |-> (winning_line # NoLine),
                writes |-> 0, made_at |-> Len(accepted)]
    /\ UNCHANGED game
    /\ TwinFrame

\* the board seen through the twin
TwinBoard == IF twin.shares_cells THEN board ELSE twin.board

\* twin.board[row][col] = player
TwinWriteCell(row, col, player) ==
    /\ twin # NoTwin
    /\ twin.writes < MaxTwinWrites
    /\ IF twin.shares_cells
       THEN /\ board' = Place(board, <<row, col>>, player)
            /\ twin' = [twin EXCEPT !.writes = @ + 1, !.board = Place(board, <<row, col>>, player)]
       ELSE /\ twin' = [twin EXCEPT !.writes = @ + 1, !.board = Place(twin.board, <<row, col>>, player)]
            /\ UNCHANGED board
    /\ UNCHANGED <<current_player, game_status, difficulty, winner, winning_line>>
    /\ TwinFrame

\* twin.winning_line.append(cell)
TwinAppendLine(cell) ==
    /\ twin # NoTwin
    /\ twin.writes < MaxTwinWrites
    /\ twin.winning_line # NoLine
    /\ twin' = [twin EXCEPT !.writes = @ + 1, !.winning_line = Append(@, cell)]
    /\ IF twin.shares_line
       THEN winning_line' = Append(winning_line, cell)
       ELSE UNCHANGED winning_line
    /\ UNCHANGED <<board, current_player, game_status, difficulty, winner>>
    /\ TwinFrame

\* a legal move on the original, at most MaxMovesAfterTwin of them once the
\* twin exists
OriginalMove(row, col) ==
    /\ twin # NoTwin => Len(accepted) < twin.made_at + MaxMovesAfterTwin
    /\ CallerMove(row, col)

NextTwin ==
    \/ \E row \in Idx, col \in Idx : OriginalMove(row, col)
    \/ CopyCall
    \/ RoundTripCall
    \/ \E row \in Idx, col \in Idx, player \in Marks : TwinWriteCell(row, col, player)
    \/ TwinAppendLine(<<2, 2>>)

SpecTwin == InitQuery /\ [][NextTwin]_vars

----------------------------------------------------------------------------
\* Restoring a game from the session: GET /state and a direct from_dict.
\* What the session holds comes from the client's cookie, so it is any value:
\* Python values are written with their type, a list as PyList(<<...>>), a
\* string that stands where a list is expected as PyStr("..."), a dict as
\* PyDict(record). Cells, marks, statuses and difficulties are bare strings.

PyList(items) == [py |-> "list", val |-> items]
PyStr(value) == [py |-> "str", val |-> value]
PyDict(items) == [py |-> "dict", val |-> items]

\* the board of a well-shaped snapshot, as the engine indexes it
BoardOf(b) == [i \in Idx |-> [j \in Idx |-> b.val[i + 1].val[j + 1]]]

RequiredFields == {"board", "current_player", "game_status", "difficulty"}
ValidStatuses == {"playing", "won", "draw", "quit"}

\* mutant: the cells of the rows are not looked at
validate_session_game_data_no_cells(game_data) ==
    IF game_data.py # "dict" THEN FALSE
    ELSE IF ~(RequiredFields \subseteq DOMAIN game_data.val) THEN FALSE
    ELSE IF game_data.val["current_player"] \notin {"X", "O"} THEN FALSE
    ELSE IF game_data.val["game_status"] \notin ValidStatuses THEN FALSE
    ELSE IF game_data.val["difficulty"] \notin Difficulties THEN FALSE
    ELSE LET b == game_data.val["board"] IN
         IF b.py # "list" THEN FALSE
         ELSE IF Len(b.val) # 3 THEN FALSE
         ELSE \A i \in 1..3 :
                 IF b.val[i].py # "list" THEN FALSE
                 ELSE IF Len(b.val[i].val) # 3 THEN FALSE
                 ELSE TRUE

\* _validate_session_game_data
validate_session_game_data(game_data) ==
    IF game_data.py # "dict" THEN FALSE
    ELSE IF ~(RequiredFields \subseteq DOMAIN game_data.val) THEN FALSE
    ELSE IF game_data.val["current_player"] \notin {"X", "O"} THEN FALSE
    ELSE IF game_data.val["game_status"] \notin ValidStatuses THEN FALSE
    ELSE IF game_data.val["difficulty"] \notin Difficulties THEN FALSE
    ELSE LET b == game_data.val["board"] IN
         IF b.py # "list" THEN FALSE
         ELSE IF Len(b.val) # 3 THEN FALSE
         ELSE \A i \in 1..3 :
                 IF b.val[i].py # "list" THEN FALSE
                 ELSE IF Len(b.val[i].val) # 3 THEN FALSE
                 ELSE \A j \in 1..3 : b.val[i].val[j] \in {"", "X", "O"}

\* what a tampered or stale session may hold under 'game'
Row(a, b, c) == PyList(<<a, b, c>>)

WellShapedBoards ==
    { PyList(<<Row("", "", ""), Row("", "", ""), Row("", "", "")>>),
      PyList(<<Row("X", "", ""), Row("", "O", ""), Row("", "", "")>>),
      PyList(<<Row("X", "X", "X"), Row("O", "O", ""), Row("", "", "")>>),
      PyList(<<Row("X", "O", "X"), Row("X", "O", "O"), Row("O", "X", "X")>>) }

MalformedBoards ==
    { PyList(<<Row("", "", ""), Row("", "", "")>>),
      PyList(<<Row("", "", ""), PyList(<<"", "">>), Row("", "", "")>>),
      PyList(<<Row("", "", ""), Row("", "", ""), PyList(<<"", "", "", "">>)>>),
      PyList(<<Row("", "", ""), PyStr("XOX"), Row("", "", "")>>),
      PyList(<<Row("", "", ""), Row("", "Z", ""), Row("", "", "")>>),
      PyList(<<Row("", "", ""), Row("", "", ""), Row("", "", "x")>>),
      PyStr("XOXOXOXOX") }

PlayerSamples == {"X", "O", "hacker"}
StatusSamples == {"playing", "won", "lost", "draw", "quit", "finished"}
DifficultySamples == {"easy", "medium", "hard", "impossible"}

\* a dict with the six keys of to_dict
FullDicts ==
    { to_dict(b, turn, status, d, None, NoLine) :
        b \in WellShapedBoards \cup MalformedBoards, turn \in PlayerSamples,
        status \in StatusSamples, d \in DifficultySamples }

\* the dict without some of its keys
Without(data, keys) == [k \in DOMAIN data \ keys |-> data[k]]

DroppedKeys ==
    { {}, {"board"}, {"current_player"}, {"game_status"}, {"difficulty"},
      {"winner", "winning_line"},
      {"board", "current_player", "game_status", "difficulty", "winner", "winning_line"} }

SessionSamples ==
    {NoSession} \cup
    { [present |-> TRUE, data |-> PyDict(Without(data, keys))] :
        data \in FullDicts, keys \in DroppedKeys } \cup
    { [present |-> TRUE, data |-> PyStr("tampered")] }

\* get_game_state_message
get_game_state_message(status, turn) ==
    IF status = "won" THEN "You won! Congratulations!"
    ELSE IF status = "lost" THEN "Computer won! Try again!"
    ELSE IF status = "draw" THEN "It's a draw! Good game!"
    ELSE IF turn = PLAYER_X THEN "Your turn - click a square to play"
    ELSE "Computer's turn..."

\* `not game_data`: no 'game' key in the session, or an empty dict
Falsy(s) == ~s.present \/ (s.data.py = "dict" /\ DOMAIN s.data.val = {})

RestoreFrame == UNCHANGED <<board, current_player, game_status, difficulty, winner,
                            winning_line, last_result, accepted, hard_only, query,
                            limiter>>

\* GET /state
GetGameState ==
    /\ response = NoResponse
    /\ IF Falsy(session)
       THEN /\ response' = [kind |-> "error", code |-> 404, error |-> "No active game"]
            /\ UNCHANGED session
       ELSE IF ~validate_session_game_data(session.data)
       THEN /\ response' = [kind |-> "error", code |-> 400, error |-> "Invalid game data"]
            /\ session' = NoSession
       ELSE /\ \E g \in {from_dict(session.data.val)} :
                  response' = [kind |-> "game", code |-> 200,
                               game |-> to_dict(g.board, g.current_player, g.game_status,
                                                g.difficulty, g.winner, g.winning_line),
                               message |-> get_game_state_message(g.game_status, g.current_player)]
            /\ UNCHANGED session
    /\ UNCHANGED twin
    /\ RestoreFrame

InitRestore ==
    /\ NewGame("medium")
    /\ last_result = None
    /\ accepted = <<>>
    /\ hard_only = Marks
    /\ query = NoQuery
    /\ twin = NoTwin
    /\ response = NoResponse
    /\ LimiterInit
    /\ session \in SessionSamples

\* game = TicTacToeGame.from_dict(game_data), called on what the session holds
FromDictCall ==
    /\ twin = NoTwin
    /\ session.present
    /\ session.data.py = "dict"
    /\ twin' = from_dict(session.data.val) @@
               [made_by |-> "from_dict", shares_cells |-> TRUE, shares_line |-> TRUE,
                writes |-> 0, made_at |-> 0]
    /\ UNCHANGED <<session, response, limiter>>
    /\ RestoreFrame

NextRestore == GetGameState \/ FromDictCall

SpecRestore == InitRestore /\ [][NextRestore]_vars

----------------------------------------------------------------------------
\* Asking the selector for a move: get_ai_move(game, d) at any state of a game
\* of legal moves. The call, the random draws it made and what it returned or
\* raised are kept in query.

\* the difficulty names a caller passes
DifficultyArgs == {"easy", "medium", "hard", "EASY", "impossible"}

\* the mark of the first what-if write of a get_move of difficulty d, None
\* when it makes none: the medium and hard tiers try ai_player first, the
\* easy tier tries human_player and only in its defensive branch
FirstWhatIfMark(b, d, defensive) ==
    IF d = "hard" THEN (IF check_winner(b) = None THEN PLAYER_O ELSE None)
    ELSE IF d = "medium" THEN PLAYER_O
    ELSE IF d = "easy" /\ defensive THEN PLAYER_X
    ELSE None

\* mutant: the what-if write is made on the game itself, test_game = game
GameAfterGetMoveNoCopy(b, line, d, defensive) ==
    IF get_empty_cells(b) = <<>> THEN [board |-> b, winning_line |-> line]
    ELSE [board |-> IF FirstWhatIfMark(b, d, defensive) # None
                    THEN Place(b, get_empty_cells(b)[1], FirstWhatIfMark(b, d, defensive))
                    ELSE b,
          winning_line |-> IF d = "hard" THEN CheckWinnerFrom(b, line).winning_line
                           ELSE line]

\* what get_move of a selector of difficulty d leaves in the game it was
\* given. Every what-if write, test_game.board[row][col] = player, is made
\* on test_game = game.copy() and shows in the game only if the copy shares
\* its cells with it; the only method of the game itself that assigns is the
\* check_winner() that opens _minimax.
GameAfterGetMove(b, line, d, defensive) ==
    LET test_game == copy(to_dict(b, PLAYER_O, "playing", d, None, line)) IN
    IF get_empty_cells(b) = <<>> THEN [board |-> b, winning_line |-> line]
    ELSE [board |-> IF test_game.shares_cells /\ FirstWhatIfMark(b, d, defensive) # None
                    THEN Place(b, get_empty_cells(b)[1], FirstWhatIfMark(b, d, defensive))
                    ELSE b,
          winning_line |-> IF d = "hard" THEN CheckWinnerFrom(b, line).winning_line
                           ELSE line]

\* the random draws that matter to difficulty d
Draws(d) ==
    IF Lower(d) \in {"easy", "medium"} THEN BOOLEAN \X Picks ELSE {<<FALSE, 0>>}

GetMoveCall(d, defensive, pick) ==
    /\ \E r \in {get_ai_move(board, d, defensive, pick)},
          g \in {GameAfterGetMove(board, winning_line, Lower(d), defensive)} :
          /\ query' = [op |-> "get_move", difficulty |-> d, defensive |-> defensive,
                       pick |-> pick, error |-> r.error, move |-> r.move]
          /\ board' = g.board
          /\ winning_line' = g.winning_line
    /\ UNCHANGED <<current_player, game_status, difficulty, winner, last_result,
                   accepted, hard_only, twin, session, response, limiter>>

NextSelector ==
    \/ \E row \in Idx, col \in Idx : PlayedMove(row, col)
    \/ /\ query = NoQuery
       /\ \E d \in DifficultyArgs : \E draw \in Draws(d) : GetMoveCall(d, draw[1], draw[2])

SpecSelector == InitQuery /\ [][NextSelector]_vars

----------------------------------------------------------------------------
\* The search on its own: ai._minimax(game, True) of a default selector at any
\* state of a game of legal moves, the score and the move it returned kept in
\* query.

MinimaxCall ==
    /\ \E r \in {Minimax(board, TRUE, AlphaInit, BetaInit, PLAYER_O, PLAYER_X)} :
          query' = [op |-> "minimax", score |-> r.score, move |-> r.move]
    /\ winning_line' = CheckWinnerFrom(board, winning_line).winning_line
    /\ UNCHANGED <<board, current_player, game_status, difficulty, winner, last_result,
                   accepted, hard_only, twin, session, response, limiter>>

NextMinimax ==
    \/ \E row \in Idx, col \in Idx : PlayedMove(row, col)
    \/ query = NoQuery /\ MinimaxCall

SpecMinimax == InitQuery /\ [][NextMinimax]_vars

----------------------------------------------------------------------------
\* Win detection on the images of a board: a second game object is given the
\* board of the game turned or mirrored, and check_winner is called on it.

Symmetries == {"identity", "rotate90", "rotate180", "rotate270",
               "mirror_columns", "mirror_rows", "transpose", "anti_transpose"}

\* the cell of the board that the image under symmetry t shows at p
SourceCell(t, p) ==
    CASE t = "identity" -> <<p[1], p[2]>>
      [] t = "rotate90" -> <<2 - p[2], p[1]>>
      [] t = "rotate180" -> <<2 - p[1], 2 - p[2]>>
      [] t = "rotate270" -> <<p[2], 2 - p[1]>>
      [] t = "mirror_columns" -> <<p[1], 2 - p[2]>>
      [] t = "mirror_rows" -> <<2 - p[1], p[2]>>
      [] t = "transpose" -> <<p[2], p[1]>>
      [] t = "anti_transpose" -> <<2 - p[2], 2 - p[1]>>

Image(t, b) == [i \in Idx |-> [j \in Idx |-> At(b, SourceCell(t, <<i, j>>))]]

\* other = TicTacToeGame(); other.board = image; other.check_winner()
CheckWinnerOnImage(t) ==
    /\ query' = [op |-> "check_winner", symmetry |-> t,
                 result |-> check_winner(Image(t, board))]
    /\ QueryFrame

NextSymmetry ==
    \/ \E row \in Idx, col \in Idx : PlayedMove(row, col)
    \/ query = NoQuery /\ \E t \in Symmetries : CheckWinnerOnImage(t)

SpecSymmetry == InitQuery /\ [][NextSymmetry]_vars

----------------------------------------------------------------------------
\* Games that are reset: legal moves and reset_game(d) at any state, d being
\* None when no difficulty is passed.

ResetArgs == {None, "", "easy", "hard", "impossible"}

\* `if difficulty:`
Truthy(d) == d # None /\ d # ""

\* mutant: without an argument the difficulty goes back to the default
ResetDifficultyDefault(old, d) == IF Truthy(d) THEN d ELSE "medium"

\* the difficulty after reset_game(d)
ResetDifficulty(old, d) == IF Truthy(d) THEN d ELSE old

\* TicTacToeGame.reset_game(d). The board is a new list, so a twin that shared
\* the old one keeps the old one; the histories start again
reset_game(d) ==
    /\ board' = EmptyBoard
    /\ current_player' = PLAYER_X
    /\ game_status' = "playing"
    /\ winner' = None
    /\ winning_line' = NoLine
    /\ difficulty' = ResetDifficulty(difficulty, d)
    /\ last_result' = None
    /\ accepted' = <<>>
    /\ hard_only' = Marks
    /\ query' = [op |-> "reset_game", difficulty |-> d]
    /\ twin' = IF twin # NoTwin /\ twin.shares_cells
               THEN [twin EXCEPT !.shares_cells = FALSE, !.shares_line = FALSE,
                                 !.board = board]
               ELSE twin
    /\ UNCHANGED <<session, response, limiter>>

NextReset ==
    \/ \E row \in Idx, col \in Idx : CallerMove(row, col)
    \/ \E d \in ResetArgs : reset_game(d)

SpecReset == Init /\ [][NextReset]_vars

----------------------------------------------------------------------------
\* The rate limiter, one key: is_allowed(key, WindowSeconds, MaxRequests)
\* called at clock readings that never go back.

WindowSeconds == 2
MaxRequests == 2
MaxTime == 6
Times == 0..MaxTime

\* mutant: a timestamp exactly window_seconds old is dropped too
DropOldInclusive(stamps, window_start) ==
    SelectSeq(stamps, LAMBDA ts : ts > window_start)

\* `while requests and requests[0] < window_start: popleft()`
RECURSIVE DropOld(_, _)
DropOld(stamps, window_start) ==
    IF stamps # <<>> /\ Head(stamps) < window_start
    THEN DropOld(Tail(stamps), window_start)
    ELSE stamps

\* RateLimiter.is_allowed(key, WindowSeconds, MaxRequests) with time.time() = t
is_allowed(t) ==
    /\ t >= now
    /\ now' = t
    /\ \E kept \in {DropOld(requests, t - WindowSeconds)} :
          IF Len(kept) >= MaxRequests
          THEN /\ requests' = kept
               /\ allowed' = "False"
               /\ UNCHANGED granted
          ELSE /\ requests' = Append(kept, t)
               /\ allowed' = "True"
               /\ granted' = Append(granted, t)
    /\ UNCHANGED <<board, current_player, game_status, difficulty, winner, winning_line,
                   last_result, accepted, hard_only, query, twin, session, response>>

NextLimiter == \E t \in Times : is_allowed(t)

SpecLimiter == Init /\ [][NextLimiter]_vars

----------------------------------------------------------------------------
\* The routes POST /new and POST /move. The game lives in the session between
\* requests; the game variables hold the game object of the last request that
\* built one.

\* a board as the list of lists the session holds
PyBoard(b) == PyList([i \in 1..3 |-> PyList([j \in 1..3 |-> b[i - 1][j - 1]])])

\* session['game'] = game.to_dict()
Stored(g) ==
    [present |-> TRUE,
     data |-> PyDict(to_dict(PyBoard(g.board), g.current_player, g.game_status,
                             g.difficulty, g.winner, g.winning_line))]

\* game = TicTacToeGame.from_dict(game_data) on validated session data
Loaded(game_data) ==
    LET g == from_dict(game_data.val) IN [g EXCEPT !.board = BoardOf(g.board)]

\* mutant: the turn does not pass to the other player
AfterMoveKeepsTurn(g, row, col, player) ==
    IF MoveRejected(g.board, g.game_status, g.current_player, row, col, player)
    THEN [game |-> g, result |-> "False"]
    ELSE LET b2 == Place(g.board, <<row, col>>, player)
             cw == CheckWinnerFrom(b2, g.winning_line)
         IN [game |->
               IF cw.winner # None
               THEN [g EXCEPT !.board = b2, !.winning_line = cw.winning_line,
                              !.game_status = IF cw.winner = PLAYER_X THEN "won" ELSE "lost",
                              !.winner = cw.winner]
               ELSE IF is_board_full(b2)
               THEN [g EXCEPT !.board = b2, !.winning_line = cw.winning_line,
                              !.game_status = "draw"]
               ELSE [g EXCEPT !.board = b2, !.winning_line = cw.winning_line],
             result |-> "True"]

\* game.make_move(row, col, player) on the game object g of a handler: the
\* game afterwards and what the call returned
AfterMove(g, row, col, player) ==
    IF MoveRejected(g.board, g.game_status, g.current_player, row, col, player)
    THEN [game |-> g, result |-> "False"]
    ELSE LET b2 == Place(g.board, <<row, col>>, player)
             cw == CheckWinnerFrom(b2, g.winning_line)
         IN [game |->
               IF cw.winner # None
               THEN [g EXCEPT !.board = b2, !.winning_line = cw.winning_line,
                              !.game_status = IF cw.winner = PLAYER_X THEN "won" ELSE "lost",
                              !.winner = cw.winner]
               ELSE IF is_board_full(b2)
               THEN [g EXCEPT !.board = b2, !.winning_line = cw.winning_line,
                              !.game_status = "draw"]
               ELSE [g EXCEPT !.board = b2, !.winning_line = cw.winning_line,
                              !.current_player = IF player = PLAYER_X THEN PLAYER_O
                                                 ELSE PLAYER_X],
             result |-> "True"]

\* the handler's game object becomes the model's game
HandlerGame(g) ==
    /\ board' = g.board
    /\ current_player' = g.current_player
    /\ game_status' = g.game_status
    /\ difficulty' = g.difficulty
    /\ winner' = g.winner
    /\ winning_line' = g.winning_line

\* an error answer of a route
ErrorResponse(route, code, error) ==
    [kind |-> "error", route |-> route, code |-> code, error |-> error]

\* the 200 answer of a route
GameResponse(route, g) ==
    [kind |-> "game", route |-> route, code |-> 200,
     game |-> Stored(g).data.val,
     message |-> get_game_state_message(g.game_status, g.current_player)]

RouteFrame == UNCHANGED <<hard_only, query, twin, limiter>>

\* the difficulty of a POST /new body; None when the body has no difficulty
NewGameArgs == {None, "easy", "medium", "hard", "EASY", "impossible"}

\* POST /new
NewGameRoute(arg) ==
    /\ \E d \in {Lower(IF arg = None THEN "medium" ELSE arg)} :
          IF d \notin Difficulties
          THEN /\ response' = ErrorResponse("new", 400, "Invalid difficulty level")
               /\ UNCHANGED <<session, game, last_result, accepted>>
          ELSE \E g \in {to_dict(EmptyBoard, PLAYER_X, "playing", d, None, NoLine)} :
                  /\ HandlerGame(g)
                  /\ session' = Stored(g)
                  /\ response' = GameResponse("new", g)
                  /\ last_result' = None
                  /\ accepted' = <<>>
    /\ RouteFrame

\* the part of POST /move that follows an accepted human move: g1 is the game
\* after it
MoveRouteReply(g1, defensive, pick) ==
    IF g1.game_status # "playing"
    THEN /\ HandlerGame(g1)
         /\ session' = Stored(g1)
         /\ response' = GameResponse("move", g1) @@ [game_over |-> TRUE]
         /\ last_result' = "True"
         /\ accepted' = Append(accepted, PLAYER_X)
    ELSE \E r \in {get_ai_move(g1.board, g1.difficulty, defensive, pick)} :
            IF r.error # None \/ r.move = NoMove
            THEN \* the exception is logged and the request goes on
                 /\ HandlerGame(g1)
                 /\ session' = Stored(g1)
                 /\ response' = GameResponse("move", g1) @@
                                   [game_over |-> FALSE, ai_move |-> NoMove]
                 /\ last_result' = "True"
                 /\ accepted' = Append(accepted, PLAYER_X)
            ELSE \E a \in {AfterMove(g1, r.move[1], r.move[2], PLAYER_O)} :
                    /\ HandlerGame(a.game)
                    /\ session' = Stored(a.game)
                    /\ response' = GameResponse("move", a.game) @@
                                      [game_over |-> a.game.game_status # "playing",
                                       ai_move |-> r.move]
                    /\ last_result' = a.result
                    /\ accepted' = IF a.result = "True"
                                   THEN accepted \o <<PLAYER_X, PLAYER_O>>
                                   ELSE Append(accepted, PLAYER_X)

\* POST /move with body {row, col}; defensive and pick are the random draws of
\* the selector
MoveRoute(row, col, defensive, pick) ==
    /\ IF row \notin Idx \/ col \notin Idx
       THEN /\ response' = ErrorResponse("move", 400, "Invalid move coordinates")
            /\ UNCHANGED <<session, game, last_result, accepted>>
       ELSE IF Falsy(session)
       THEN /\ response' = ErrorResponse("move", 404, "No active game")
            /\ UNCHANGED <<session, game, last_result, accepted>>
       ELSE IF ~validate_session_game_data(session.data)
       THEN /\ response' = ErrorResponse("move", 400, "Invalid game data")
            /\ session' = NoSession
            /\ UNCHANGED <<game, last_result, accepted>>
       ELSE \E g \in {Loaded(session.data)} :
               IF g.current_player # PLAYER_X
               THEN /\ response' = ErrorResponse("move", 400, "Not your turn")
                    /\ HandlerGame(g)
                    /\ UNCHANGED <<session, last_result, accepted>>
               ELSE IF g.game_status # "playing"
               THEN /\ response' = ErrorResponse("move", 400, "Game not active")
                    /\ HandlerGame(g)
                    /\ UNCHANGED <<session, last_result, accepted>>
               ELSE \E h \in {AfterMove(g, row, col, PLAYER_X)} :
                       IF h.result = "False"
                       THEN /\ response' = ErrorResponse("move", 400, "Invalid move")
                            /\ HandlerGame(g)
                            /\ last_result' = "False"
                            /\ UNCHANGED <<session, accepted>>
                       ELSE MoveRouteReply(h.game, defensive, pick)
    /\ RouteFrame

\* the random draws the selector can make in a POST /move with this body: a
\* request that never reaches the selector draws nothing, the medium tier
\* draws no defensive coin, and a choice among at most n cells has n outcomes
RouteDraws(row, col) ==
    IF Falsy(session) \/ row \notin Idx \/ col \notin Idx THEN {<<FALSE, 0>>}
    ELSE LET g == Loaded(session.data)
             n == Len(get_empty_cells(g.board))
         IN IF g.game_status # "playing" \/ g.board[row][col] # EMPTY \/ n < 3
               \/ g.difficulty = "hard"
            THEN {<<FALSE, 0>>}
            ELSE (IF g.difficulty = "easy" THEN BOOLEAN ELSE {FALSE}) \X
                 {pick \in Picks : pick < n - 1}

NextRoutes ==
    \/ \E arg \in NewGameArgs : NewGameRoute(arg)
    \/ \E row \in Coords, col \in Coords : \E draw \in RouteDraws(row, col) :
          MoveRoute(row, col, draw[1], draw[2])

\* no request has been made: no game is stored
InitRoutes ==
    /\ NewGame("medium")
    /\ last_result = None
    /\ accepted = <<>>
    /\ hard_only = Marks
    /\ AuxInit

SpecRoutes == InitRoutes /\ [][NextRoutes]_vars

----------------------------------------------------------------------------
\* A game restored from a snapshot of a game of legal moves, and moves made on
\* either of the two afterwards.

\* twin.make_move(row, col, twin.current_player), accepted
TwinMove(row, col) ==
    /\ twin # NoTwin
    /\ twin.writes < MaxTwinWrites
    /\ \E a \in {AfterMove(to_dict(TwinBoard, twin.current_player, twin.game_status,
                                   twin.difficulty, twin.winner, twin.winning_line),
                           row, col, twin.current_player)} :
          /\ a.result = "True"
          /\ twin' = [twin EXCEPT !.writes = @ + 1,
                                  !.board = a.game.board,
                                  !.current_player = a.game.current_player,
                                  !.game_status = a.game.game_status,
                                  !.winner = a.game.winner,
                                  !.winning_line = a.game.winning_line,
                                  !.shares_line = IF a.game.winner # None THEN FALSE ELSE @]
          /\ board' = IF twin.shares_cells THEN a.game.board ELSE board
    /\ UNCHANGED <<current_player, game_status, difficulty, winner, winning_line>>
    /\ TwinFrame

NextSnapshotTwin ==
    \/ \E row \in Idx, col \in Idx : OriginalMove(row, col)
    \/ RoundTripCall
    \/ \E row \in Idx, col \in Idx : TwinMove(row, col)

SpecSnapshotTwin == InitQuery /\ [][NextSnapshotTwin]_vars

----------------------------------------------------------------------------
\* Vocabulary of the properties, stated on the board alone

Cells == Idx \X Idx
Rows == {{<<i, j>> : j \in Idx} : i \in Idx}
Columns == {{<<i, j>> : i \in Idx} : j \in Idx}
Diagonals == {{<<i, i>> : i \in Idx}, {<<i, 2 - i>> : i \in Idx}}
AllLines == Rows \cup Columns \cup Diagonals

Filled(b, l, m) == \A p \in l : At(b, p) = m
HasLine(b, m) == \E l \in AllLines : Filled(b, l, m)
CompleteLines(b) == {l \in AllLines : \E m \in Marks : Filled(b, l, m)}
Full(b) == \A p \in Cells : At(b, p) # EMPTY

\* the empty cells where m completes a line at once
WinInOne(b, m) == {p \in Cells : At(b, p) = EMPTY /\ HasLine(Place(b, p, m), m)}

\* the empty cells after which X has no win-in-one
SafeCells(b) == {p \in Cells : At(b, p) = EMPTY /\ WinInOne(Place(b, p, PLAYER_O), PLAYER_X) = {}}

\* what get_move of TicTacToeAI('hard') returns on b
HardChoice(b) == get_move(b, "hard", PLAYER_O, PLAYER_X, FALSE, 0).move

----------------------------------------------------------------------------
\* C1: with X moving first and every O move being the hard selector's reply,
\* X never holds a complete line and game_status is never 'won'.
C1_HardNeverLosesSecond ==
    PLAYER_O \in hard_only =>
        /\ game_status # "won"
        /\ ~HasLine(board, PLAYER_X)

\* a game played to the ninth move against the hard selector
C1_Witness ==
    /\ PLAYER_O \in hard_only
    /\ Len(accepted) = 9
    /\ accepted[1] = PLAYER_X
    /\ game_status = "draw"

\* C2: when both marks have been played by a hard selector maximizing for
\* itself, whoever opened, no line is ever complete, the status is 'draw'
\* exactly when the board is full and 'playing' before that, and while
\* playing the selector of the mark to move returns a legal cell, so the game
\* goes on until the board is full.
C2_SelfPlayEndsInDraw ==
    hard_only = Marks =>
        /\ game_status \in {"playing", "draw"}
        /\ ~HasLine(board, PLAYER_X)
        /\ ~HasLine(board, PLAYER_O)
        /\ (game_status = "draw") <=> Full(board)
        /\ (game_status = "draw") => Len(accepted) = 9
        /\ (game_status = "playing") =>
              \E r \in {get_move(board, "hard", current_player, Other(current_player), FALSE, 0)} :
                  /\ r.error = None
                  /\ r.move \in Cells
                  /\ At(board, r.move) = EMPTY

\* a self-played game opened by O has ended
C2_Witness ==
    /\ hard_only = Marks
    /\ game_status = "draw"
    /\ accepted[1] = PLAYER_O

\* C3: whenever O is to move in a game in progress and some empty cell
\* completes a line for O, the hard tier returns such a cell.
C3_HardTakesWinInOne ==
    (game_status = "playing" /\ current_player = PLAYER_O /\ WinInOne(board, PLAYER_O) # {})
        => HardChoice(board) \in WinInOne(board, PLAYER_O)

\* C4: whenever O is to move in a game in progress, has no win-in-one, and
\* some empty cell leaves X without a win-in-one, the hard tier returns such
\* a cell.
C4_HardPlaysSafeCell ==
    (/\ game_status = "playing"
     /\ current_player = PLAYER_O
     /\ WinInOne(board, PLAYER_O) = {}
     /\ SafeCells(board) # {})
        => HardChoice(board) \in SafeCells(board)

\* C5: the marks of the accepted moves are X, O, X, O, ... and while the game
\* is 'playing' current_player is the mark other than the last accepted one
\* (X before any move).
C5_TurnsAlternate ==
    /\ \A i \in 1..Len(accepted) :
          accepted[i] = (IF i % 2 = 1 THEN PLAYER_X ELSE PLAYER_O)
    /\ game_status = "playing" =>
          current_player = (IF accepted = <<>> THEN PLAYER_X
                            ELSE Other(accepted[Len(accepted)]))

\* a call was rejected in the middle of a game
C5_Witness ==
    /\ last_result = "False"
    /\ Len(accepted) >= 4
    /\ game_status = "playing"

\* C6: no step changes a cell that holds a mark.
C6_CellsNeverOverwritten ==
    [][\A p \in Cells : At(board, p) # EMPTY => At(board', p) = At(board, p)]_vars

\* a call was rejected when a single cell was left
C6_Witness ==
    /\ last_result = "False"
    /\ Len(accepted) = 8
    /\ game_status = "playing"

\* C7: 'won' with winner X exactly when a line is all X, 'lost' with winner O
\* exactly when a line is all O, and winner is None when no line is complete.
C7_StatusMatchesLines ==
    /\ (game_status = "won" /\ winner = PLAYER_X) <=> HasLine(board, PLAYER_X)
    /\ (game_status = "lost" /\ winner = PLAYER_O) <=> HasLine(board, PLAYER_O)
    /\ (~HasLine(board, PLAYER_X) /\ ~HasLine(board, PLAYER_O)) => winner = None

\* O has completed the anti-diagonal
C7_Witness ==
    /\ game_status = "lost"
    /\ winner = PLAYER_O
    /\ Filled(board, {<<i, 2 - i>> : i \in Idx}, PLAYER_O)

\* C8: 'draw' exactly when the board is full with no complete line, and
\* 'playing' exactly when the board is not full and no line is complete.
C8_DrawAndPlaying ==
    LET line == HasLine(board, PLAYER_X) \/ HasLine(board, PLAYER_O) IN
    /\ (game_status = "draw") <=> (Full(board) /\ ~line)
    /\ (game_status = "playing") <=> (~Full(board) /\ ~line)

\* the ninth move completed a line
C8_Witness ==
    /\ Len(accepted) = 9
    /\ Full(board)
    /\ game_status = "won"

\* the lines in the order rows 0,1,2, columns 0,1,2, main diagonal, anti-diagonal
ScanOrder(k) ==
    IF k <= 3 THEN [n \in 1..3 |-> <<k - 1, n - 1>>]
    ELSE IF k <= 6 THEN [n \in 1..3 |-> <<n - 1, k - 4>>]
    ELSE IF k = 7 THEN [n \in 1..3 |-> <<n - 1, n - 1>>]
    ELSE [n \in 1..3 |-> <<n - 1, 3 - n>>]

CompleteAt(b, k) == {ScanOrder(k)[n] : n \in 1..3} \in CompleteLines(b)

\* C9: winning_line is set exactly in the 'won' and 'lost' states, and then it
\* is the first complete line in scan order.
C9_WinningLine ==
    /\ (winning_line # NoLine) <=> (game_status \in {"won", "lost"})
    /\ winning_line # NoLine =>
          \E k \in 1..8 :
              /\ CompleteAt(board, k)
              /\ \A j \in 1..(k - 1) : ~CompleteAt(board, j)
              /\ winning_line = ScanOrder(k)

\* one move completed a row and a column, and the row is reported
C9_Witness ==
    /\ \E r \in Rows, c \in Columns : {r, c} \subseteq CompleteLines(board)
    /\ winning_line # NoLine
    /\ winning_line[1][1] = winning_line[2][1]

\* C10 as claimed: at most one of the eight lines is complete.
C10_AtMostOneLine == Cardinality(CompleteLines(board)) <= 1

\* C10 as amended: at most two lines are complete, and two complete lines
\* hold the same mark and cross in one cell.
C10_AtMostTwoCrossingLines ==
    /\ Cardinality(CompleteLines(board)) <= 2
    /\ ~(HasLine(board, PLAYER_X) /\ HasLine(board, PLAYER_O))
    /\ \A l1, l2 \in CompleteLines(board) : l1 # l2 => Cardinality(l1 \cap l2) = 1

\* one move completed two lines
C10_Witness ==
    /\ Cardinality(CompleteLines(board)) = 2
    /\ last_result = "True"

\* C11: a call of is_valid_move with any integers row, col returns True
\* exactly when both are in 0..2, the cell is empty and the game is 'playing',
\* and it changes no field of the game.
C11_IsValidMoveTotal ==
    [][(query'.op = "is_valid_move" /\ query' # query) =>
          /\ query'.result \in BOOLEAN
          /\ query'.result <=>
                (/\ query'.row \in 0..2
                 /\ query'.col \in 0..2
                 /\ At(board, <<query'.row, query'.col>>) = EMPTY
                 /\ game_status = "playing")
          /\ game' = game]_vars

\* is_valid_move was asked about a negative row in the middle of a game
C11_Witness ==
    /\ query.op = "is_valid_move"
    /\ query.row < 0
    /\ query.result = FALSE
    /\ Len(accepted) >= 2
    /\ game_status = "playing"

\* the cell (row, col) exists, is empty, and the game is in progress
LegalCell(row, col) ==
    /\ row \in 0..2
    /\ col \in 0..2
    /\ At(board, <<row, col>>) = EMPTY
    /\ game_status = "playing"

\* C12: make_move(row, col, player) returns False exactly when player is not
\* current_player or (row, col) is not a valid move, and a call that returns
\* False changes no field of the game.
C12_RejectedExactlyWhen ==
    /\ [](\A row \in Coords, col \in Coords, player \in Marks :
            (make_move_returns(board, game_status, current_player, row, col, player) = "False")
                <=> (player # current_player \/ ~LegalCell(row, col)))
    /\ [][(last_result' = "False") => game' = game]_vars

\* a call was rejected right after X's first move, O being to move
C12_Witness ==
    /\ last_result = "False"
    /\ Len(accepted) = 1
    /\ current_player = PLAYER_O


\* the value make_move returns for (row, col, player) in the current state
Returned(row, col, player) ==
    make_move_returns(board, game_status, current_player, row, col, player)

\* C13 as written: an out-of-turn call to a legal cell and an in-turn call to
\* an illegal position return different results, so the caller can tell the
\* two rejections apart.
C13_RejectionsTellReason ==
    \A row \in Coords, col \in Coords, r2 \in Coords, c2 \in Coords :
        (LegalCell(row, col) /\ ~LegalCell(r2, c2)) =>
            Returned(row, col, Other(current_player)) # Returned(r2, c2, current_player)

\* C13 amended: make_move reports a rejection only as the value False: the
\* out-of-turn call and the illegal-position call return the same False, which
\* differs only from the True of an accepted call.
C13_RejectionsReturnSameFalse ==
    \A row \in Coords, col \in Coords, r2 \in Coords, c2 \in Coords :
        (LegalCell(row, col) /\ ~LegalCell(r2, c2)) =>
            /\ Returned(row, col, Other(current_player)) = "False"
            /\ Returned(r2, c2, current_player) = "False"
            /\ Returned(row, col, current_player) = "True"

\* a call was rejected in a running game where both kinds of rejection exist:
\* a legal cell for the wrong mark and an occupied cell for the right mark
C13_Witness ==
    /\ last_result = "False"
    /\ game_status = "playing"
    /\ Len(accepted) = 2
    /\ \E p \in Cells : At(board, p) # EMPTY
    /\ \E p \in Cells : LegalCell(p[1], p[2])


\* C14: an accepted make_move(row, col, player) changes exactly the cell
\* (row, col), from empty to player, and leaves the other 8 cells and the
\* difficulty as they were; current_player becomes the other mark iff the
\* game is still 'playing' and stays the mover when the move ended the game.
C14_AcceptedMoveFrame ==
    [][accepted' # accepted =>
          \A row \in Coords, col \in Coords, player \in Marks :
              make_move(row, col, player) =>
                  /\ last_result' = "True"
                  /\ row \in Idx /\ col \in Idx
                  /\ At(board, <<row, col>>) = EMPTY
                  /\ At(board', <<row, col>>) = player
                  /\ \A p \in Cells \ {<<row, col>>} : At(board', p) = At(board, p)
                  /\ difficulty' = difficulty
                  /\ (current_player' = Other(player)) <=> (game_status' = "playing")
                  /\ (game_status' # "playing") => current_player' = player]_vars

\* an accepted move by O ended the game and O is still current_player
C14_Witness ==
    /\ last_result = "True"
    /\ game_status = "lost"
    /\ current_player = PLAYER_O
    /\ Len(accepted) = 6
    /\ HasLine(board, PLAYER_O)


\* the fields of the twin as a reader of the twin sees them
TwinFields == to_dict(TwinBoard, twin.current_player, twin.game_status,
                      twin.difficulty, twin.winner, twin.winning_line)

\* C15: from_dict(to_dict(s)) has the board, current_player, game_status,
\* difficulty, winner and winning_line of s, for every state s of a game of
\* legal moves.
C15_RoundTrip ==
    [][(twin = NoTwin /\ twin' # NoTwin /\ twin'.made_by = "from_dict") =>
          /\ TwinFields' = Fields
          /\ from_dict(to_dict(board, current_player, game_status, difficulty,
                               winner, winning_line)) = Fields]_vars

\* the round trip was made on a game X has won
C15_Witness ==
    /\ twin # NoTwin
    /\ twin.made_by = "from_dict"
    /\ twin.writes = 0
    /\ twin.game_status = "won"
    /\ twin.winning_line # NoLine
    /\ TwinFields = Fields


\* C18: copy() returns a game with the six fields of the original that shares
\* no list with it: a later write to a cell or to winning_line of the copy
\* leaves the original unchanged, and a later move on the original leaves the
\* copy unchanged.
C18_CopyIsIndependent ==
    [][/\ (twin = NoTwin /\ twin' # NoTwin /\ twin'.made_by = "copy") =>
              /\ TwinFields' = Fields
              /\ game' = game
       /\ (twin # NoTwin /\ twin.made_by = "copy") =>
              /\ (twin' # twin) => game' = game
              /\ (game' # game) => TwinFields' = TwinFields]_vars

\* the copy was taken of the fresh game; then X moved to (0, 0) on the
\* original and O was written into (0, 0) of the copy
C18_Witness ==
    /\ twin # NoTwin
    /\ twin.made_by = "copy"
    /\ twin.writes = 1
    /\ twin.made_at = 0
    /\ Len(accepted) = 1
    /\ At(board, <<0, 0>>) = PLAYER_X
    /\ At(TwinBoard, <<0, 0>>) = PLAYER_O


\* the statuses the engine or the session validation know
KnownStatuses == {"playing", "won", "lost", "draw", "quit"}

\* a list of 3 lists of 3 cells, each '', 'X' or 'O'
WellShapedBoard(b) ==
    /\ b.py = "list"
    /\ Len(b.val) = 3
    /\ \A i \in 1..3 :
          /\ b.val[i].py = "list"
          /\ Len(b.val[i].val) = 3
          /\ \A j \in 1..3 : b.val[i].val[j] \in {"", "X", "O"}

\* the snapshot is a dict that is structurally malformed in one of the four
\* ways: board shape, cell value, current_player, game_status
Malformed(data) ==
    /\ data.py = "dict"
    /\ \/ "board" \in DOMAIN data.val /\ ~WellShapedBoard(data.val["board"])
       \/ "current_player" \in DOMAIN data.val /\ data.val["current_player"] \notin Marks
       \/ "game_status" \in DOMAIN data.val /\ data.val["game_status"] \notin KnownStatuses

\* C16 as written: from_dict rejects a malformed snapshot, so no game is ever
\* built by from_dict from one.
C16_FromDictRejectsMalformed ==
    ~(/\ twin # NoTwin
      /\ twin.made_by = "from_dict"
      /\ session.present
      /\ Malformed(session.data))

\* C16 amended: from_dict validates nothing and builds a game holding whatever
\* the dict holds; the rejection is made by the session validation that
\* GET /state runs before from_dict: for a malformed snapshot the answer is
\* 400 'Invalid game data', the snapshot is removed from the session and no
\* game is returned.
C16_StateRouteRejectsMalformed ==
    [][(session.present /\ Malformed(session.data)) =>
          /\ (response' # response) =>
                /\ response'.kind = "error"
                /\ response'.code = 400
                /\ response'.error = "Invalid game data"
                /\ session' = NoSession
          /\ (twin' # twin) =>
                /\ twin'.made_by = "from_dict"
                /\ \A k \in DOMAIN session.data.val : twin'[k] = session.data.val[k]]_vars

\* from_dict built a game whose current_player is 'hacker' from the snapshot
\* that GET /state then refused
C16_Witness ==
    /\ twin # NoTwin
    /\ twin.current_player = "hacker"
    /\ response.kind = "error"
    /\ response.code = 400
    /\ session = NoSession


\* C17: a snapshot whose status is 'won' while no line is complete, or 'draw'
\* while a cell is empty, is never returned by GET /state as a game.
C17_InconsistentSnapshotRefused ==
    response.kind = "game" =>
        /\ response.game.game_status = "won" =>
              \E m \in Marks : HasLine(BoardOf(response.game.board), m)
        /\ response.game.game_status = "draw" =>
              Full(BoardOf(response.game.board))


\* p comes before q in row-major order
RowMajorBefore(p, q) == p[1] < q[1] \/ (p[1] = q[1] /\ p[2] < q[2])

\* C19: get_empty_cells returns exactly the empty cells, each once, in
\* row-major order, the empty list on a full board, and 9 - k cells after k
\* accepted moves on a fresh game.
C19_EmptyCellsRowMajor ==
    query.op = "get_empty_cells" =>
        /\ {query.result[k] : k \in 1..Len(query.result)} =
              {p \in Cells : At(board, p) = EMPTY}
        /\ \A k \in 1..(Len(query.result) - 1) :
              RowMajorBefore(query.result[k], query.result[k + 1])
        /\ Full(board) => query.result = <<>>
        /\ Len(query.result) = 9 - Len(accepted)

\* get_empty_cells was called on a board filled by nine accepted moves
C19_Witness ==
    /\ query.op = "get_empty_cells"
    /\ query.result = <<>>
    /\ Full(board)
    /\ Len(accepted) = 9

\* the first cell in row-major order that completes a line of m, if any
FirstWinInOne(b, m) ==
    IF WinInOne(b, m) = {} THEN NoMove
    ELSE CHOOSE p \in WinInOne(b, m) :
             \A q \in WinInOne(b, m) \ {p} : RowMajorBefore(p, q)

\* C20: in a running game _find_winning_move(game, m) returns the
\* row-major-first empty cell whose filling with m completes a line of m, and
\* None iff there is none; _find_blocking_move returns what
\* _find_winning_move returns for X.
C20_FindWinningMove ==
    game_status = "playing" =>
        /\ query.op = "find_winning_move" =>
              query.result = FirstWinInOne(board, query.player)
        /\ query.op = "find_blocking_move" =>
              /\ query.result = FirstWinInOne(board, PLAYER_X)
              /\ query.result = find_winning_move(board, PLAYER_X)

\* _find_winning_move was asked for O where two cells win and returned the
\* first of them
C20_Witness ==
    /\ query.op = "find_winning_move"
    /\ query.player = PLAYER_O
    /\ game_status = "playing"
    /\ Cardinality(WinInOne(board, PLAYER_O)) = 2
    /\ query.result = FirstWinInOne(board, PLAYER_O)
    /\ query.result # NoMove


\* the cells of a list
Members(seq) == {seq[k] : k \in 1..Len(seq)}

\* C21: in a running game and for each of easy, medium and hard, under every
\* outcome of the random draws, get_move returns one cell of get_empty_cells,
\* so that make_move with it and the mark to move is accepted.
C21_MoveIsEmptyCell ==
    (query.op = "get_move" /\ game_status = "playing"
        /\ Lower(query.difficulty) \in Difficulties) =>
        /\ query.error = None
        /\ query.move \in Members(get_empty_cells(board))
        /\ query.move \in Cells
        /\ make_move_returns(board, game_status, current_player,
                             query.move[1], query.move[2], current_player) = "True"

\* the easy tier drew the last pick on a board with three marks, O to move
C21_Witness ==
    /\ query.op = "get_move"
    /\ query.difficulty = "easy"
    /\ query.pick = MaxPick
    /\ game_status = "playing"
    /\ current_player = PLAYER_O
    /\ Len(accepted) = 3
    /\ At(board, query.move) = EMPTY


\* the board with X and O exchanged
SwapMarks(b) ==
    [i \in Idx |-> [j \in Idx |-> IF b[i][j] = EMPTY THEN EMPTY ELSE Other(b[i][j])]]

\* C22 as written: in a running game get_move takes current_player as its own
\* mark and the other mark as the opponent, so with X to move the medium and
\* hard tiers return what a selector playing X against O returns.
C22_SelectorPlaysMarkToMove ==
    (query.op = "get_move" /\ game_status = "playing"
        /\ query.difficulty \in {"medium", "hard"}) =>
        query.move = get_move(board, query.difficulty, current_player,
                              Other(current_player), query.defensive, query.pick).move

\* C22 amended: get_move never reads current_player; the selector plays the
\* mark in its ai_player attribute against human_player, which __init__ sets
\* to O and X. So with X to move the medium tier still returns O's first
\* win-in-one before X's. The tiers are symmetric in the two attributes: a
\* selector with ai_player = X and human_player = O returns on a board what
\* the default selector returns on the board with X and O exchanged.
C22_SelectorPlaysItsOwnMark ==
    (query.op = "get_move" /\ game_status = "playing" /\ current_player = PLAYER_X
        /\ query.difficulty \in {"medium", "hard"}) =>
        /\ (query.difficulty = "medium" /\ WinInOne(board, PLAYER_O) # {}) =>
              query.move = FirstWinInOne(board, PLAYER_O)
        /\ (query.difficulty = "medium" /\ WinInOne(board, PLAYER_O) = {}
               /\ WinInOne(board, PLAYER_X) # {}) =>
              query.move = FirstWinInOne(board, PLAYER_X)
        /\ get_move(board, query.difficulty, PLAYER_X, PLAYER_O,
                    query.defensive, query.pick)
           = get_move(SwapMarks(board), query.difficulty, PLAYER_O, PLAYER_X,
                      query.defensive, query.pick)

\* X is to move and can win at once, and the medium tier returned O's
\* win-in-one, which is no win for X
C22_Witness ==
    /\ query.op = "get_move"
    /\ query.difficulty = "medium"
    /\ game_status = "playing"
    /\ current_player = PLAYER_X
    /\ WinInOne(board, PLAYER_X) # {}
    /\ query.move \in WinInOne(board, PLAYER_O)
    /\ query.move \notin WinInOne(board, PLAYER_X)


\* C23: get_move raises the no-moves error when no cell is empty, whatever
\* the difficulty, and the invalid-difficulty error when a cell is empty and
\* the difficulty is none of easy, medium, hard; it returns no move then, and
\* the game is unchanged in both cases.
C23_GetMoveErrors ==
    [][(query.op = "none" /\ query'.op = "get_move") =>
          /\ get_empty_cells(board) = <<>> =>
                /\ query'.error = "No valid moves available"
                /\ query'.move = NoMove
                /\ game' = game
          /\ (get_empty_cells(board) # <<>>
                 /\ Lower(query'.difficulty) \notin Difficulties) =>
                /\ query'.error = "Invalid difficulty level"
                /\ query'.move = NoMove
                /\ game' = game
          /\ (get_empty_cells(board) # <<>>
                 /\ Lower(query'.difficulty) \in Difficulties) =>
                query'.error = None]_vars

\* a selector of unknown difficulty was asked on a full board and raised the
\* no-moves error
C23_Witness ==
    /\ query.op = "get_move"
    /\ query.difficulty = "impossible"
    /\ query.error = "No valid moves available"
    /\ Full(board)
    /\ game_status = "draw"


CornerCells == {<<0, 0>>, <<0, 2>>, <<2, 0>>, <<2, 2>>}
EmptyCells(b) == {p \in Cells : At(b, p) = EMPTY}

\* C24: in a running game with O to move the medium tier returns (1) O's
\* row-major-first win-in-one if there is one, (2) else X's row-major-first
\* win-in-one if there is one, (3) else (1,1) if it is empty, (4) else an
\* empty corner if there is one, (5) else an empty cell.
C24_MediumPriorityChain ==
    (query.op = "get_move" /\ query.difficulty = "medium"
        /\ game_status = "playing" /\ current_player = PLAYER_O) =>
        IF WinInOne(board, PLAYER_O) # {}
            THEN query.move = FirstWinInOne(board, PLAYER_O)
        ELSE IF WinInOne(board, PLAYER_X) # {}
            THEN query.move = FirstWinInOne(board, PLAYER_X)
        ELSE IF At(board, <<1, 1>>) = EMPTY
            THEN query.move = <<1, 1>>
        ELSE IF CornerCells \cap EmptyCells(board) # {}
            THEN query.move \in CornerCells \cap EmptyCells(board)
        ELSE query.move \in EmptyCells(board)

\* nobody can win at once, the center is taken and the medium tier returned
\* the last of several empty corners
C24_Witness ==
    /\ query.op = "get_move"
    /\ query.difficulty = "medium"
    /\ game_status = "playing"
    /\ current_player = PLAYER_O
    /\ WinInOne(board, PLAYER_O) = {}
    /\ WinInOne(board, PLAYER_X) = {}
    /\ At(board, <<1, 1>>) # EMPTY
    /\ Cardinality(CornerCells \cap EmptyCells(board)) >= 2
    /\ query.move = <<2, 2>>


\* C25: in a running game the easy tier returns X's row-major-first
\* win-in-one when the defensive branch is taken and X has one; in every
\* other case it returns the cell of get_empty_cells that random.choice
\* draws, whether or not O could win at once.
C25_EasyBlocksOrDraws ==
    (query.op = "get_move" /\ Lower(query.difficulty) = "easy"
        /\ game_status = "playing") =>
        IF query.defensive /\ WinInOne(board, PLAYER_X) # {}
        THEN query.move = FirstWinInOne(board, PLAYER_X)
        ELSE /\ query.move \in EmptyCells(board)
             /\ query.move = get_empty_cells(board)[
                                (query.pick % Len(get_empty_cells(board))) + 1]

\* O could win at once, the defensive branch found nothing to block, and the
\* easy tier returned a cell that does not win
C25_Witness ==
    /\ query.op = "get_move"
    /\ query.difficulty = "easy"
    /\ query.defensive
    /\ game_status = "playing"
    /\ current_player = PLAYER_O
    /\ WinInOne(board, PLAYER_X) = {}
    /\ WinInOne(board, PLAYER_O) # {}
    /\ query.move \notin WinInOne(board, PLAYER_O)


\* C27: in a running game get_move of every tier leaves board,
\* current_player, game_status, winner and winning_line (and difficulty) of
\* the game it was given as they were.
C27_GetMoveLeavesGame ==
    [][(query.op = "none" /\ query'.op = "get_move" /\ game_status = "playing") =>
          game' = game]_vars

\* the hard tier searched a running game with five marks and returned a move
C27_Witness ==
    /\ query.op = "get_move"
    /\ query.difficulty = "hard"
    /\ query.move # NoMove
    /\ game_status = "playing"
    /\ Len(accepted) = 5
    /\ winning_line = NoLine


\* Exhaustive minimax without a window. ValueFor(b, is_maximizing) is the
\* value of board b for O when the next mark placed is O (is_maximizing) or
\* X: 10 or -10 on a board with a line of O or of X, 0 on a full board, and
\* otherwise the greatest (least) of the values of all the boards one mark
\* further, which are among 10, 0 and -10.
RECURSIVE ValueFor(_, _)
ValueFor(b, is_maximizing) ==
    IF HasLine(b, PLAYER_O) /\ ~HasLine(b, PLAYER_X) THEN 10
    ELSE IF HasLine(b, PLAYER_X) THEN -10
    ELSE IF Full(b) THEN 0
    ELSE IF is_maximizing
    THEN IF \E p \in EmptyCells(b) : ValueFor(Place(b, p, PLAYER_O), FALSE) = 10 THEN 10
         ELSE IF \E p \in EmptyCells(b) : ValueFor(Place(b, p, PLAYER_O), FALSE) = 0 THEN 0
         ELSE -10
    ELSE IF \E p \in EmptyCells(b) : ValueFor(Place(b, p, PLAYER_X), TRUE) = -10 THEN -10
         ELSE IF \E p \in EmptyCells(b) : ValueFor(Place(b, p, PLAYER_X), TRUE) = 0 THEN 0
         ELSE 10

\* the row-major-first empty cell after which the value of the board for O is
\* score, None if there is no such cell
FirstCellOfValue(b, score) ==
    LET best == {p \in EmptyCells(b) : ValueFor(Place(b, p, PLAYER_O), FALSE) = score}
    IN IF best = {} THEN NoMove
       ELSE CHOOSE p \in best : \A q \in best \ {p} : RowMajorBefore(p, q)

\* C26: on every board of a game of legal moves _minimax(game, True) with the
\* default window returns the score of exhaustive minimax without pruning
\* (+10, -10 or 0, with move None on a terminal board) and the row-major-first
\* empty cell whose exhaustive value is that score.
C26_PruningKeepsAnswer ==
    query.op = "minimax" =>
        /\ query.score = ValueFor(board, TRUE)
        /\ query.score \in {10, -10, 0}
        /\ IF HasLine(board, PLAYER_X) \/ HasLine(board, PLAYER_O) \/ Full(board)
           THEN query.move = NoMove
           ELSE query.move = FirstCellOfValue(board, query.score)

\* the search was run on a running game with three marks in which O can
\* force a win
C26_Witness ==
    /\ query.op = "minimax"
    /\ game_status = "playing"
    /\ Len(accepted) = 3
    /\ query.score = 10
    /\ query.move # NoMove


\* C28: on every board of a game of legal moves and for each of the 4
\* rotations and 4 reflections, check_winner on the image of the board
\* returns the mark (or None) it returns on the board.
C28_WinnerUnderSymmetry ==
    query.op = "check_winner" =>
        /\ query.result = check_winner(board)
        /\ query.result = winner

\* O won on the anti-diagonal and check_winner found O on the quarter turn
\* of the board, where the line lies on the main diagonal
C28_Witness ==
    /\ query.op = "check_winner"
    /\ query.symmetry = "rotate90"
    /\ query.result = PLAYER_O
    /\ winning_line = <<<<0, 2>>, <<1, 1>>, <<2, 0>>>>
    /\ Filled(Image("rotate90", board), {<<0, 0>>, <<1, 1>>, <<2, 2>>}, PLAYER_O)


\* C29: once game_status is 'won', 'lost' or 'draw', every make_move call,
\* with any row, col and player, returns False and leaves the whole game as
\* it is, so the game stays in that state forever.
C29_TerminalAbsorbing ==
    /\ [](game_status \in {"won", "lost", "draw"} =>
             \A row \in Coords, col \in Coords, player \in Marks :
                 Returned(row, col, player) = "False")
    /\ [][(game_status # "playing") => (last_result' = "False" /\ game' = game)]_vars

\* a call was refused on a game that O had won with its third mark
C29_Witness ==
    /\ game_status = "lost"
    /\ last_result = "False"
    /\ winner = PLAYER_O
    /\ Len(accepted) = 6
    /\ ~Full(board)


\* C30: after reset_game, from any state, the board is all empty,
\* current_player is 'X', game_status is 'playing', winner and winning_line
\* are None; difficulty is the value passed when one is passed and the
\* previous difficulty otherwise.
C30_ResetGame ==
    [][\A d \in ResetArgs :
          reset_game(d) =>
              /\ \A p \in Cells : At(board', p) = EMPTY
              /\ current_player' = PLAYER_X
              /\ game_status' = "playing"
              /\ winner' = None
              /\ winning_line' = NoLine
              /\ (d \in {"easy", "hard", "impossible"}) => difficulty' = d
              /\ (d \in {None, ""}) => difficulty' = difficulty]_vars

\* a game that had been set to 'hard' by a reset and then lost was reset
\* without a difficulty
C30_Witness ==
    /\ query.op = "reset_game"
    /\ query.difficulty = None
    /\ difficulty = "hard"
    /\ board = EmptyBoard
    /\ accepted = <<>>
    /\ game_status = "playing"


\* the number of cells of b that hold mark m
Count(b, m) == Cardinality({p \in Cells : At(b, p) = m})

\* C36: the number of X cells minus the number of O cells is 0 or 1; while
\* the game is 'playing' it is 0 exactly when current_player is 'X' and 1
\* exactly when current_player is 'O'.
C36_MarkCountsBalanced ==
    LET lead == Count(board, PLAYER_X) - Count(board, PLAYER_O) IN
    /\ lead \in {0, 1}
    /\ game_status = "playing" =>
          /\ (lead = 0) <=> (current_player = PLAYER_X)
          /\ (lead = 1) <=> (current_player = PLAYER_O)

\* a call was refused while O was to move with three X and two O on the board
C36_Witness ==
    /\ game_status = "playing"
    /\ current_player = PLAYER_O
    /\ last_result = "False"
    /\ Count(board, PLAYER_X) = 3
    /\ Count(board, PLAYER_O) = 2

\* C37: at most 9 calls are accepted, the game is no longer 'playing' after
\* the ninth accepted move, and no win comes before the fifth accepted move.
C37_EndsWithinNineMoves ==
    /\ Len(accepted) <= 9
    /\ Len(accepted) = 9 => game_status # "playing"
    /\ game_status \in {"won", "lost"} => Len(accepted) >= 5

\* a tenth call was refused on a game drawn by the ninth accepted move
C37_Witness ==
    /\ Len(accepted) = 9
    /\ game_status = "draw"
    /\ last_result = "False"


\* the recorded timestamps of stamps that lie in the window ending at t
InWindow(stamps, t) == {k \in 1..Len(stamps) : stamps[k] >= t - WindowSeconds /\ stamps[k] <= t}

\* C38: at every call time at most MaxRequests calls that returned True have
\* their timestamp in the window ending at that time; a call that returns
\* False records no timestamp; and a call returns True exactly when fewer than
\* MaxRequests recorded timestamps lie in the window ending at its time.
C38_SlidingWindow ==
    /\ [](Cardinality(InWindow(granted, now)) <= MaxRequests)
    /\ [][(allowed' = "False") => (granted' = granted /\ Len(requests') <= Len(requests) /\ \A k \in 1..Len(requests') : requests'[k] \in Members(requests))]_vars
    /\ [][(allowed' = "True") <=> (Cardinality(InWindow(granted, now')) < MaxRequests)]_vars

\* a call was refused after the window had slid far enough to allow more
\* calls than fit in one window
C38_Witness ==
    /\ allowed = "False"
    /\ Len(granted) > MaxRequests
    /\ Len(requests) = MaxRequests
    /\ requests[1] = now - WindowSeconds


\* the game the session holds
StoredGame == Loaded(session.data)

\* this step answers a POST /move whose row and col are in 0..2
MoveAnswered ==
    /\ response'.route = "move"
    /\ ~(response'.kind = "error" /\ response'.error = "Invalid move coordinates")

\* C31: after every /move request that answers success, the stored game is
\* finished, or it is X's turn and the stored board has exactly one more X
\* and one more O than before the request; no stored game is unfinished with
\* O to move.
C31_MoveKeepsTurnOrder ==
    /\ [][(response'.route = "move" /\ response'.kind = "game") => (LET before == StoredGame.board after == Loaded(session'.data) IN after.game_status # "playing" \/ (after.current_player = PLAYER_X /\ Count(after.board, PLAYER_X) = Count(before, PLAYER_X) + 1 /\ Count(after.board, PLAYER_O) = Count(before, PLAYER_O) + 1))]_vars
    /\ [](session.present => ~(StoredGame.game_status = "playing" /\ StoredGame.current_player = PLAYER_O))

\* the fourth successful request left an unfinished game with one empty cell
C31_Witness ==
    /\ response.kind = "game"
    /\ response.route = "move"
    /\ ~response.game_over
    /\ response.ai_move # NoMove
    /\ session.present
    /\ StoredGame.game_status = "playing"
    /\ StoredGame.current_player = PLAYER_X
    /\ Count(StoredGame.board, PLAYER_O) = 4

\* C32: a /move request on a stored game that has ended (X won, O won or a
\* draw) is answered 'Game not active', one on a stored game whose
\* current_player is 'O' is answered 'Not your turn', and both leave the
\* stored game unchanged.
C32_EndedOrOutOfTurnRejected ==
    [][(session.present /\ MoveAnswered) => ((StoredGame.game_status \in {"won", "lost", "draw"} => (response'.kind = "error" /\ response'.error = "Game not active" /\ session' = session)) /\ ((StoredGame.current_player = PLAYER_O /\ StoredGame.game_status = "playing") => (response'.kind = "error" /\ response'.error = "Not your turn" /\ session' = session)))]_vars

\* C33: every game stored by the routes passes _validate_session_game_data.
C33_StoredGameValidates ==
    session.present => validate_session_game_data(session.data)


\* C34: after g2 = from_dict(g.to_dict()), an accepted make_move on g2 leaves
\* g's board unchanged and an accepted make_move on g leaves g2's board
\* unchanged.
C34_RestoredGameIndependent ==
    [][(twin # NoTwin /\ twin.made_by = "from_dict") => ((twin'.writes > twin.writes => board' = board) /\ (accepted' # accepted => TwinBoard' = TwinBoard))]_vars


\* C35: for every game state, finished games with empty cells included, and a
\* valid difficulty, get_move returns an empty cell or raises ValueError; it
\* never returns None.
C35_GetMoveNeverReturnsNone ==
    (query.op = "get_move" /\ Lower(query.difficulty) \in Difficulties) =>
        \/ query.error # None
        \/ (query.move # NoMove /\ query.move \in EmptyCells(board))

====
